---- MODULE Spec2Model ----
(***************************************************************************)
(* A model of GoSSG's core engine (package core): the project registry,    *)
(* the article repository (slugify, SaveArticle, ParseArticleFile, the     *)
(* raw file operations) and the site builder (BuildProject), acting on a   *)
(* filesystem of files and directories.                                    *)
(*                                                                         *)
(* Text is a sequence of one-character strings; a few fixed pieces of a    *)
(* document ("title: ", "date: ", a template action) are single tokens.    *)
(* A path is a sequence of names, a name is text.                          *)
(***************************************************************************)
EXTENDS Integers, Sequences, FiniteSets, TLC

VARIABLES
    config,   \* Engine.config.Projects: the registry, a sequence of Project
    files,    \* the regular files of the disk: absolute path -> content
    dirs,     \* the directories of the disk: a set of absolute paths
    last,     \* the last call made on the engine, with what it returned
    nops,     \* how many calls were made so far
    title,    \* slugify's argument (the pure-function specification)
    slug,     \* slugify's result
    pc,       \* which specification runs, and where the pure-function one stands
    builds,   \* the BuildProject calls in progress: where each stands
    save      \* the SaveArticle call in progress: where it stands

vars == <<config, files, dirs, last, nops, title, slug, pc, builds, save>>

(***************************************************************************)
(* Bounds.                                                                 *)
(***************************************************************************)
\* the longest title the pure-function specification enumerates
MaxLen == 4
\* the number of engine calls in one behaviour
MaxOps == 2
\* how many calls of BuildProject run at once
MaxBuilds == 2

(***************************************************************************)
(* Text.                                                                   *)
(***************************************************************************)
Lower == {"a", "b", "c", "d", "e", "f", "g", "h", "i", "j", "k", "l", "m",
          "n", "o", "p", "q", "r", "s", "t", "u", "v", "w", "x", "y", "z"}
Digit == {"0", "1", "2", "3", "4", "5", "6", "7", "8", "9"}

\* the characters the regular expression of slugify does NOT match
SlugChars == Lower \cup Digit \cup {"-"}

\* unicode.ToLower on the characters the model uses
LowerChar(c) ==
    CASE c = "A" -> "a"
      [] c = "B" -> "b"
      [] c = "D" -> "d"
      [] c = "M" -> "m"
      [] c = "P" -> "p"
      [] c = "Eacute" -> "eacute"
      [] OTHER -> c

\* strings.ToLower
ToLower(s) == [i \in 1..Len(s) |-> LowerChar(s[i])]

\* the text after the longest prefix of characters outside SlugChars
RECURSIVE SkipRun(_)
SkipRun(s) ==
    IF s = <<>> \/ Head(s) \in SlugChars THEN s ELSE SkipRun(Tail(s))

\* a mutant: the expression without its "+", every character replaced alone
RECURSIVE ReplaceEachChar(_)
ReplaceEachChar(s) ==
    IF s = <<>> THEN <<>>
    ELSE IF Head(s) \in SlugChars THEN <<Head(s)>> \o ReplaceEachChar(Tail(s))
    ELSE <<"-">> \o ReplaceEachChar(Tail(s))

\* regexp "[^a-z0-9-]+" ReplaceAllString(s, "-"): leftmost-longest matches
RECURSIVE ReplaceAllString(_)
ReplaceAllString(s) ==
    IF s = <<>> THEN <<>>
    ELSE IF Head(s) \in SlugChars THEN <<Head(s)>> \o ReplaceAllString(Tail(s))
    ELSE <<"-">> \o ReplaceAllString(SkipRun(s))

RECURSIVE TrimLeft(_, _)
TrimLeft(s, cut) ==
    IF s # <<>> /\ Head(s) \in cut THEN TrimLeft(Tail(s), cut) ELSE s

RECURSIVE TrimRight(_, _)
TrimRight(s, cut) ==
    IF s # <<>> /\ s[Len(s)] \in cut
    THEN TrimRight(SubSeq(s, 1, Len(s) - 1), cut)
    ELSE s

\* strings.Trim(s, cutset)
Trim(s, cut) == TrimRight(TrimLeft(s, cut), cut)

\* a mutant: the dashes trimmed before the runs are replaced
slugifyTrimFirst(t) == ReplaceAllString(Trim(ToLower(t), {"-"}))

\* slugify
slugify(t) == Trim(ReplaceAllString(ToLower(t)), {"-"})

(***************************************************************************)
(* The pure-function specification: slugify applied to every title of at   *)
(* most MaxLen characters and to the examples, then to its own result.     *)
(***************************************************************************)
\* "Eacute" stands for one non-ASCII upper-case letter, "eacute" for its lower case
Alphabet == {"a", "B", "7", "-", " ", "!", "Eacute"}

RECURSIVE TextsUpTo(_, _)
TextsUpTo(A, n) ==
    IF n = 0 THEN {<<>>}
    ELSE LET S == TextsUpTo(A, n - 1)
         IN  S \cup {Append(s, c) : s \in S, c \in A}

MyPost == <<"M", "y", " ", "P", "o", "s", "t", "!">>
Blank3 == <<" ", " ", " ">>
ExampleTitles == {MyPost, Blank3}

\* last before any call was made
NoCall ==
    [op |-> "none", project |-> <<>>, path |-> <<>>, article |-> <<>>,
     data |-> <<>>, err |-> "", ret |-> <<>>]

InitSlug ==
    /\ title \in TextsUpTo(Alphabet, MaxLen) \cup ExampleTitles
    /\ slug = <<>>
    /\ pc = "start"
    /\ config = <<>>
    /\ files = <<>>
    /\ dirs = {}
    /\ last = NoCall
    /\ nops = 0
    /\ builds = <<>>
    /\ save = <<>>

\* slug := slugify(title)
Slugify ==
    /\ pc = "start"
    /\ slug' = slugify(title)
    /\ pc' = "slugged"
    /\ UNCHANGED <<title, config, files, dirs, last, nops, builds, save>>

\* the slug is slugified again: slug := slugify(slug)
Reslugify ==
    /\ pc = "slugged"
    /\ slug' = slugify(slug)
    /\ pc' = "reslugged"
    /\ UNCHANGED <<title, config, files, dirs, last, nops, builds, save>>

NextSlug == Slugify \/ Reslugify

SpecSlug == InitSlug /\ [][NextSlug]_vars

(***************************************************************************)
(* Names and paths.  A path is a sequence of names; the absolute path <<>> *)
(* is the root of the disk.  A caller's relative path is the sequence of   *)
(* the segments between its separators, "" being <<>>.                     *)
(***************************************************************************)
content == <<"c", "o", "n", "t", "e", "n", "t">>
public == <<"p", "u", "b", "l", "i", "c">>
themes == <<"t", "h", "e", "m", "e", "s">>
default == <<"d", "e", "f", "a", "u", "l", "t">>
templates == <<"t", "e", "m", "p", "l", "a", "t", "e", "s">>
partials == <<"p", "a", "r", "t", "i", "a", "l", "s">>
static == <<"s", "t", "a", "t", "i", "c">>
css == <<"c", "s", "s">>
js == <<"j", "s">>
addons == <<"a", "d", "d", "o", "n", "s">>
posts == <<"p", "o", "s", "t", "s">>
pageHtml == <<"p", "a", "g", "e", ".", "h", "t", "m", "l">>
dotMd == <<".", "m", "d">>
dotHtml == <<".", "h", "t", "m", "l">>
Dot == <<".">>
DotDot == <<".", ".">>

\* a local variable: F of the value of v, v being computed once
With(v, F(_)) == CHOOSE r \in {F(x) : x \in {v}} : TRUE

\* strings.HasSuffix
HasSuffix(s, suf) ==
    /\ Len(s) >= Len(suf)
    /\ SubSeq(s, Len(s) - Len(suf) + 1, Len(s)) = suf

\* strings.TrimSuffix
TrimSuffix(s, suf) ==
    IF HasSuffix(s, suf) THEN SubSeq(s, 1, Len(s) - Len(suf)) ELSE s

IsPrefix(p, q) == Len(p) <= Len(q) /\ SubSeq(q, 1, Len(p)) = p

\* filepath.Clean of a rooted path: "." dropped, ".." removes the name before
\* it, and the root has no parent
RECURSIVE CleanAbsFrom(_, _)
CleanAbsFrom(acc, segs) ==
    IF segs = <<>> THEN acc
    ELSE LET h == Head(segs)
         IN  IF h = Dot \/ h = <<>> THEN CleanAbsFrom(acc, Tail(segs))
             ELSE IF h = DotDot
                  THEN CleanAbsFrom(IF acc = <<>> THEN acc
                                    ELSE SubSeq(acc, 1, Len(acc) - 1), Tail(segs))
                  ELSE CleanAbsFrom(Append(acc, h), Tail(segs))

\* filepath.Clean of a relative path: a leading ".." stays
RECURSIVE CleanRelFrom(_, _)
CleanRelFrom(acc, segs) ==
    IF segs = <<>> THEN acc
    ELSE LET h == Head(segs)
         IN  IF h = Dot \/ h = <<>> THEN CleanRelFrom(acc, Tail(segs))
             ELSE IF h = DotDot /\ acc # <<>> /\ acc[Len(acc)] # DotDot
                  THEN CleanRelFrom(SubSeq(acc, 1, Len(acc) - 1), Tail(segs))
                  ELSE CleanRelFrom(Append(acc, h), Tail(segs))

\* filepath.Join(base, rel...) on an absolute base
JoinAbs(base, rel) == With(base \o rel, LAMBDA segs : CleanAbsFrom(<<>>, segs))

\* filepath.Join(a, b) on relative paths ("." is <<>>)
JoinRel(a, b) == CleanRelFrom(<<>>, a \o b)

\* filepath.Dir of a caller's relative path
Dir(p) == IF p = <<>> THEN <<>> ELSE CleanRelFrom(<<>>, SubSeq(p, 1, Len(p) - 1))

\* filepath.Base of a caller's relative path
Base(p) == IF p = <<>> THEN Dot ELSE p[Len(p)]

Parent(p) == SubSeq(p, 1, Len(p) - 1)

(***************************************************************************)
(* The disk: fs is a record of files (path -> content) and dirs (paths).   *)
(* Every operation returns [ok, fs] and fails for the reasons the shape of *)
(* the disk gives (a missing file, a file where a directory is needed).    *)
(***************************************************************************)
IsDir(fs, p) == p \in fs.dirs
IsFile(fs, p) == p \in DOMAIN fs.files
Exists(fs, p) == IsDir(fs, p) \/ IsFile(fs, p)

Prefixes(p) == {SubSeq(p, 1, n) : n \in 0..Len(p)}

\* os.MkdirAll: fails when a name on the way is a regular file
MkdirAll(fs, p) ==
    IF \E q \in Prefixes(p) : IsFile(fs, q)
    THEN [ok |-> FALSE, fs |-> fs]
    ELSE [ok |-> TRUE, fs |-> [fs EXCEPT !.dirs = @ \cup Prefixes(p)]]

\* os.WriteFile and os.Create then Write: the parent must be a directory and
\* the path must not be one
WriteFile(fs, p, data) ==
    IF p = <<>> \/ IsDir(fs, p) \/ ~IsDir(fs, Parent(p))
    THEN [ok |-> FALSE, fs |-> fs]
    ELSE [ok |-> TRUE,
          fs |-> [fs EXCEPT !.files =
                     [q \in DOMAIN fs.files \cup {p} |->
                         IF q = p THEN data ELSE fs.files[q]]]]

\* os.Remove: a regular file, or an empty directory
Remove(fs, p) ==
    IF IsFile(fs, p)
    THEN [ok |-> TRUE,
          fs |-> [fs EXCEPT !.files = [q \in DOMAIN fs.files \ {p} |-> fs.files[q]]]]
    ELSE IF /\ IsDir(fs, p)
            /\ p # <<>>
            /\ ~\E q \in fs.dirs \cup DOMAIN fs.files : q # p /\ IsPrefix(p, q)
    THEN [ok |-> TRUE, fs |-> [fs EXCEPT !.dirs = @ \ {p}]]
    ELSE [ok |-> FALSE, fs |-> fs]

\* os.RemoveAll: the path and everything below it; a missing path is no error
RemoveAll(fs, p) ==
    [ok |-> TRUE,
     fs |-> [files |-> [q \in {r \in DOMAIN fs.files : ~IsPrefix(p, r)} |-> fs.files[q]],
             dirs |-> {r \in fs.dirs : ~IsPrefix(p, r)}]]

(***************************************************************************)
(* Documents: "---\n<YAML front matter>---\n\n<body>".                      *)
(***************************************************************************)
Delim == <<"-", "-", "-">>
NL == "\n"
Space == {" ", "\n", "\t", "\r"}

\* strings.TrimSpace
TrimSpace(s) == Trim(s, Space)

\* strings.Index: the first place sub starts at in s, 0 when there is none
Index(s, sub) ==
    LET at == {i \in 1..(Len(s) - Len(sub) + 1) : SubSeq(s, i, i + Len(sub) - 1) = sub}
    IN  IF at = {} THEN 0 ELSE CHOOSE i \in at : \A k \in at : i <= k

\* the pieces of s between the occurrences of sep
RECURSIVE SplitAll(_, _)
SplitAll(s, sep) ==
    With(s, LAMBDA t :
        With(Index(t, sep), LAMBDA i :
            IF i = 0 THEN <<t>>
            ELSE <<SubSeq(t, 1, i - 1)>>
                     \o SplitAll(SubSeq(t, i + Len(sep), Len(t)), sep)))

\* strings.SplitN(s, sep, n): at most n pieces, the last one the unsplit rest
RECURSIVE SplitN(_, _, _)
SplitN(s, sep, n) ==
    With(s, LAMBDA t :
        With(Index(t, sep), LAMBDA i :
            IF n <= 1 \/ i = 0 THEN <<t>>
            ELSE <<SubSeq(t, 1, i - 1)>>
                     \o SplitN(SubSeq(t, i + Len(sep), Len(t)), sep, n - 1)))

\* the zero time.Time
ZeroDate == 0

\* time.Time in YAML: its RFC 3339 text, one token per instant
DateText(d) ==
    CASE d = 0 -> "0001-01-01T00:00:00Z"
      [] d = 1 -> "2025-06-01T12:00:00Z"
      [] d = 2 -> "2025-06-02T12:00:00Z"
      [] OTHER -> "2025-06-03T12:00:00Z"
DateTexts == {DateText(d) : d \in 0..3}
ParseDate(tok) == CHOOSE d \in 0..3 : DateText(d) = tok

\* whether yaml.v3 must quote a string scalar: surrounding blanks, a leading
\* indicator, a document marker at its start
NeedsQuote(t) ==
    \/ Head(t) \in Space \/ t[Len(t)] \in Space
    \/ Head(t) \in {"!", "'", "#", "&", "*", "[", "{", "|", ">", "%", "@"}
    \/ Head(t) = "-" /\ (Len(t) = 1 \/ t[2] = " ")
    \/ IsPrefix(Delim, t)

\* a string scalar as yaml.v3 writes it
ScalarText(t) ==
    IF t = <<>> THEN <<"\"", "\"">>
    ELSE IF NeedsQuote(t) THEN <<"'">> \o t \o <<"'">>
    ELSE t

\* yaml.Marshal(&article.FrontMatter)
yamlMarshal(fm) ==
    <<"title: ">> \o ScalarText(fm.Title) \o <<NL>>
        \o <<"date: ", DateText(fm.Date), NL>>

\* the lines of a YAML block that hold something
Lines(s) ==
    LET ls == SplitAll(s, <<NL>>)
    IN  SelectSeq([i \in 1..Len(ls) |-> Trim(ls[i], {" "})], LAMBDA l : l # <<>>)

Quotes == {"'", "\""}

\* a scalar of the block read as a string: [ok, v]
ScalarValue(v) ==
    IF v = <<>> THEN [ok |-> TRUE, v |-> <<>>]
    ELSE IF Head(v) \in Quotes
         THEN IF Len(v) >= 2 /\ v[Len(v)] = Head(v)
              THEN [ok |-> TRUE, v |-> SubSeq(v, 2, Len(v) - 1)]
              ELSE [ok |-> FALSE, v |-> <<>>]
         ELSE [ok |-> TRUE, v |-> v]

\* whether a line is an entry of a mapping the decoder accepts: a key the
\* model knows, with a value of the key's type
LineOk(l) ==
    \/ Head(l) = "title: " /\ ScalarValue(Trim(Tail(l), {" "})).ok
    \/ Head(l) = "date: " /\ Len(l) = 2 /\ l[2] \in DateTexts

\* yaml.Unmarshal into a map: the block must be a mapping (or empty)
yamlValid(block) == \A ls \in {Lines(block)} : \A i \in 1..Len(ls) : LineOk(ls[i])

\* yaml.Unmarshal(parts[1], &article.FrontMatter): [ok, fm]; a key that is
\* absent leaves the field's zero value
yamlUnmarshal(block) ==
    LET ls == Lines(block)
        ts == SelectSeq(ls, LAMBDA l : Head(l) = "title: ")
        ds == SelectSeq(ls, LAMBDA l : Head(l) = "date: ")
    IN  IF ~yamlValid(block) THEN [ok |-> FALSE, fm |-> [Title |-> <<>>, Date |-> ZeroDate]]
        ELSE [ok |-> TRUE,
              fm |-> [Title |-> IF ts = <<>> THEN <<>>
                                ELSE ScalarValue(Trim(Tail(ts[Len(ts)]), {" "})).v,
                      Date |-> IF ds = <<>> THEN ZeroDate
                               ELSE ParseDate(ds[Len(ds)][2])]]

(***************************************************************************)
(* The engine's calls.  Each is an operator on the registry and the disk   *)
(* that yields [err, ret, fs]: the error returned ("" for nil, else the    *)
(* start of its message), the value returned, and the disk afterwards.     *)
(***************************************************************************)
NoErr == ""
ErrNotFound == "project not found"
ErrRead == "could not read file"
ErrMkdir == "could not create directory for file"
ErrWrite == "could not write to file"
ErrFormat == "invalid front matter format"
ErrYaml == "could not parse front matter"
ErrTitle == "article title cannot be empty or invalid"

Result(err, ret, fs) == [err |-> err, ret |-> ret, fs |-> fs]

\* a mutant: a name that is not registered gives the first project
FindProjectOrFirst(cfg, name) ==
    LET at == {i \in 1..Len(cfg) : cfg[i].Name = name}
    IN  IF at = {} /\ cfg = <<>>
        THEN [ok |-> FALSE, project |-> [Name |-> name, Path |-> <<>>]]
        ELSE IF at = {} THEN [ok |-> TRUE, project |-> cfg[1]]
        ELSE [ok |-> TRUE, project |-> cfg[CHOOSE i \in at : \A k \in at : i <= k]]

\* Engine.FindProjectByName: the first project of that name, [ok, project]
FindProjectByName(cfg, name) ==
    LET at == {i \in 1..Len(cfg) : cfg[i].Name = name}
    IN  IF at = {} THEN [ok |-> FALSE, project |-> [Name |-> name, Path |-> <<>>]]
        ELSE [ok |-> TRUE, project |-> cfg[CHOOSE i \in at : \A k \in at : i <= k]]

\* filepath.Join(project.Path, "content", filePath)
ContentPath(project, filePath) == JoinAbs(project.Path \o <<content>>, filePath)

\* Engine.ReadFileContent
ReadFileContent(cfg, fs, projectName, filePath) ==
    LET found == FindProjectByName(cfg, projectName)
        fullPath == ContentPath(found.project, filePath)
    IN  IF ~found.ok THEN Result(ErrNotFound, <<>>, fs)
        ELSE IF ~IsFile(fs, fullPath) THEN Result(ErrRead, <<>>, fs)
        ELSE Result(NoErr, fs.files[fullPath], fs)

\* Engine.WriteFileContent
WriteFileContent(cfg, fs, projectName, filePath, newContent) ==
    LET found == FindProjectByName(cfg, projectName)
        fullPath == ContentPath(found.project, filePath)
        made == MkdirAll(fs, Parent(fullPath))
        written == WriteFile(made.fs, fullPath, newContent)
    IN  IF ~found.ok THEN Result(ErrNotFound, <<>>, fs)
        ELSE IF ~made.ok THEN Result(ErrMkdir, <<>>, made.fs)
        ELSE IF ~written.ok THEN Result(ErrWrite, <<>>, written.fs)
        ELSE Result(NoErr, <<>>, written.fs)

NoFrontMatter == [Title |-> <<>>, Date |-> ZeroDate]
NoArticle == [FrontMatter |-> NoFrontMatter, Body |-> <<>>, FilePath |-> <<>>]

\* Engine.ParseArticleFile
ParseArticleFile(cfg, fs, projectName, filePath) ==
    LET read == ReadFileContent(cfg, fs, projectName, filePath)
        parts == SplitN(read.ret, Delim, 3)
        front == yamlUnmarshal(parts[2])
    IN  IF read.err # NoErr THEN Result(read.err, NoArticle, fs)
        ELSE IF Len(parts) < 3 THEN Result(ErrFormat, NoArticle, fs)
        ELSE IF ~front.ok THEN Result(ErrYaml, NoArticle, fs)
        ELSE Result(NoErr,
                    [FrontMatter |-> front.fm,
                     Body |-> TrimSpace(parts[3]),
                     FilePath |-> filePath],
                    fs)

\* the document WriteArticleFile builds in contentBuilder
Document(article) ==
    Delim \o <<NL>> \o yamlMarshal(article.FrontMatter)
        \o Delim \o <<NL, NL>> \o article.Body

\* Engine.WriteArticleFile
WriteArticleFile(cfg, fs, projectName, article) ==
    WriteFileContent(cfg, fs, projectName, article.FilePath, Document(article))

\* a mutant: a new article is put beside posts, not in it
FinalPathFlat(newSlug, originalFilePath) ==
    IF originalFilePath = <<>>
    THEN <<newSlug \o dotMd>>
    ELSE IF newSlug # TrimSuffix(Base(originalFilePath), dotMd)
         THEN JoinRel(Dir(originalFilePath), <<newSlug \o dotMd>>)
         ELSE originalFilePath

\* the final path SaveArticle chooses for a slug and the original path
FinalPath(newSlug, originalFilePath) ==
    IF originalFilePath = <<>>
    THEN JoinRel(<<posts>>, <<newSlug \o dotMd>>)
    ELSE IF newSlug # TrimSuffix(Base(originalFilePath), dotMd)
         THEN JoinRel(Dir(originalFilePath), <<newSlug \o dotMd>>)
         ELSE originalFilePath

\* the file SaveArticle removes after a rename: the path is built on the
\* FIRST project of the registry, e.config.Projects[0]
OldFullPath(cfg, originalFilePath) ==
    JoinAbs(cfg[1].Path \o <<content>>, originalFilePath)

\* SaveArticle once the slug is known not to be empty: the path is chosen,
\* the article written and, after a rename, the old file removed
SaveWithSlug(cfg, fs, projectName, articleData, originalFilePath, newSlug) ==
    LET finalPath == FinalPath(newSlug, originalFilePath)
        written == WriteArticleFile(cfg, fs, projectName,
                                    [articleData EXCEPT !.FilePath = finalPath])
    IN  IF written.err # NoErr THEN Result(written.err, <<>>, written.fs)
        ELSE IF originalFilePath # <<>> /\ originalFilePath # finalPath
             THEN Result(NoErr, finalPath,
                         Remove(written.fs, OldFullPath(cfg, originalFilePath)).fs)
             ELSE Result(NoErr, finalPath, written.fs)

\* a mutant: the empty slug is not rejected
SaveArticleUnchecked(cfg, fs, projectName, articleData, originalFilePath) ==
    SaveWithSlug(cfg, fs, projectName, articleData, originalFilePath,
                 slugify(articleData.FrontMatter.Title))

\* Engine.SaveArticle
SaveArticle(cfg, fs, projectName, articleData, originalFilePath) ==
    LET newSlug == slugify(articleData.FrontMatter.Title)
    IN  IF newSlug = <<>> THEN Result(ErrTitle, <<>>, fs)
        ELSE SaveWithSlug(cfg, fs, projectName, articleData, originalFilePath, newSlug)

(***************************************************************************)
(* The walk order of filepath.Walk: lexical, a directory before what it    *)
(* holds.                                                                  *)
(***************************************************************************)
Ascii ==
    <<"-", ".", "0", "1", "2", "3", "4", "5", "6", "7", "8", "9",
      "A", "B", "C", "D", "E", "F", "G", "H", "I", "J", "K", "L", "M",
      "N", "O", "P", "Q", "R", "S", "T", "U", "V", "W", "X", "Y", "Z",
      "a", "b", "c", "d", "e", "f", "g", "h", "i", "j", "k", "l", "m",
      "n", "o", "p", "q", "r", "s", "t", "u", "v", "w", "x", "y", "z">>
Code(c) == CHOOSE i \in 1..Len(Ascii) : Ascii[i] = c

\* a < b for two names, byte by byte
RECURSIVE NameLess(_, _)
NameLess(a, b) ==
    IF b = <<>> THEN FALSE
    ELSE IF a = <<>> THEN TRUE
    ELSE IF Head(a) = Head(b) THEN NameLess(Tail(a), Tail(b))
    ELSE Code(Head(a)) < Code(Head(b))

\* p is walked before q
RECURSIVE PathLess(_, _)
PathLess(p, q) ==
    IF q = <<>> THEN FALSE
    ELSE IF p = <<>> THEN TRUE
    ELSE IF Head(p) = Head(q) THEN PathLess(Tail(p), Tail(q))
    ELSE NameLess(Head(p), Head(q))

\* the paths of S in walk order: the i-th is walked after i - 1 others
SortPaths(S) ==
    [i \in 1..Cardinality(S) |->
        CHOOSE x \in S : Cardinality({y \in S : PathLess(y, x)}) = i - 1]

\* what filepath.Walk(root) visits, in order (root itself first)
WalkOrder(fs, root) ==
    SortPaths({p \in fs.dirs \cup DOMAIN fs.files : IsPrefix(root, p)})

\* filepath.Rel(base, path) for a path below base
Rel(base, path) == SubSeq(path, Len(base) + 1, Len(path))

(***************************************************************************)
(* The site builder.                                                       *)
(***************************************************************************)
ErrClean == "failed to recreate public directory"
ErrTemplate == "could not parse page template"
ErrWalk == "error walking content directory"
\* copyStaticAssets returns the error of the walk as it is
ErrStatic == "static"

\* template actions of page.html
TContent == "{{.Content}}"
TNoField == "{{.Nope}}"
TUnclosed == "{{"

\* a mutant: a template that is missing or does not parse is taken as empty
ParseFilesLax(fs, templatePath) ==
    IF ~IsFile(fs, templatePath) THEN [ok |-> TRUE, tmpl |-> <<>>]
    ELSE [ok |-> TRUE,
          tmpl |-> SelectSeq(fs.files[templatePath], LAMBDA a : a # TUnclosed)]

\* template.ParseFiles(templatePath): [ok, tmpl]
ParseFiles(fs, templatePath) ==
    IF ~IsFile(fs, templatePath) THEN [ok |-> FALSE, tmpl |-> <<>>]
    ELSE IF \E i \in 1..Len(fs.files[templatePath]) : fs.files[templatePath][i] = TUnclosed
    THEN [ok |-> FALSE, tmpl |-> <<>>]
    ELSE [ok |-> TRUE, tmpl |-> fs.files[templatePath]]

\* tmpl.Execute(w, page): [ok, out]; the output written before a failing
\* action stays written
RECURSIVE Execute(_, _)
Execute(tmpl, page) ==
    IF tmpl = <<>> THEN [ok |-> TRUE, out |-> <<>>]
    ELSE IF Head(tmpl) = TNoField THEN [ok |-> FALSE, out |-> <<>>]
    ELSE LET rest == Execute(Tail(tmpl), page)
             here == IF Head(tmpl) = TContent THEN page.Content ELSE <<Head(tmpl)>>
         IN  [ok |-> rest.ok, out |-> here \o rest.out]

\* markdown.ToHTML: a paragraph, a rule, or nothing
ToHTML(body) ==
    LET t == TrimSpace(body)
    IN  IF t = <<>> THEN <<>>
        ELSE IF t = Delim THEN <<"<hr>", NL>>
        ELSE <<"<p>">> \o t \o <<"</p>", NL>>

\* a mutant: a file without front matter is rendered whole
processMarkdownFileLenient(fs, sourcePath, destPath, tmpl) ==
    LET parts == SplitN(fs.files[sourcePath], Delim, 3)
        body == IF Len(parts) < 3 THEN fs.files[sourcePath] ELSE parts[3]
        run == Execute(tmpl, [Content |-> ToHTML(body)])
    IN  IF Len(parts) = 3 /\ ~yamlValid(parts[2]) THEN [ok |-> FALSE, fs |-> fs]
        ELSE [ok |-> run.ok, fs |-> WriteFile(fs, destPath, run.out).fs]

\* processMarkdownFile: [ok, fs]
processMarkdownFile(fs, sourcePath, destPath, tmpl) ==
    With(SplitN(fs.files[sourcePath], Delim, 3), LAMBDA parts :
        LET page == [Content |-> ToHTML(parts[3])]
            created == WriteFile(fs, destPath, <<>>)
            run == Execute(tmpl, page)
        IN  IF Len(parts) < 3 THEN [ok |-> FALSE, fs |-> fs]
            ELSE IF ~yamlValid(parts[2]) THEN [ok |-> FALSE, fs |-> fs]
            ELSE IF ~created.ok THEN [ok |-> FALSE, fs |-> fs]
            ELSE [ok |-> run.ok, fs |-> WriteFile(fs, destPath, run.out).fs])

\* a mutant: the copy writes nothing
copyFileNothing(fs, src, dst) == [ok |-> TRUE, fs |-> fs]

\* copyFile: [ok, fs]
copyFile(fs, src, dst) == WriteFile(fs, dst, fs.files[src])

\* a mutant: the extension of a markdown file is matched in any case
VisitContentAnyCase(fs, contentDir, publicDir, tmpl, path) ==
    LET destPath == JoinAbs(publicDir, Rel(contentDir, path))
        made == MkdirAll(fs, Parent(destPath))
        htmlName == TrimSuffix(destPath[Len(destPath)], dotMd) \o dotHtml
    IN  IF IsDir(fs, path) THEN [ok |-> TRUE, fs |-> fs]
        ELSE IF ~made.ok THEN made
        ELSE IF HasSuffix(ToLower(path[Len(path)]), dotMd)
             THEN processMarkdownFile(made.fs, path,
                                      Append(Parent(destPath), htmlName), tmpl)
             ELSE copyFile(made.fs, path, destPath)

\* the callback of the content walk on one path: [ok, fs]
VisitContent(fs, contentDir, publicDir, tmpl, path) ==
    With(JoinAbs(publicDir, Rel(contentDir, path)), LAMBDA destPath :
        With(MkdirAll(fs, Parent(destPath)), LAMBDA made :
            With(Append(Parent(destPath),
                        TrimSuffix(destPath[Len(destPath)], dotMd) \o dotHtml),
                 LAMBDA htmlPath :
                IF IsDir(fs, path) THEN [ok |-> TRUE, fs |-> fs]
                ELSE IF ~made.ok THEN made
                ELSE IF HasSuffix(path[Len(path)], dotMd)
                     THEN processMarkdownFile(made.fs, path, htmlPath, tmpl)
                     ELSE copyFile(made.fs, path, destPath))))

\* a mutant: the walk goes on after an error and reports it at the end
RECURSIVE WalkContentThrough(_, _, _, _, _, _)
WalkContentThrough(fs, contentDir, publicDir, tmpl, order, i) ==
    IF i > Len(order) THEN [ok |-> TRUE, fs |-> fs]
    ELSE LET step == VisitContent(fs, contentDir, publicDir, tmpl, order[i])
             rest == WalkContentThrough(step.fs, contentDir, publicDir, tmpl, order, i + 1)
         IN  [ok |-> step.ok /\ rest.ok, fs |-> rest.fs]

\* the content walk from the i-th path of the order on, stopped by the first
\* error: [ok, fs]
RECURSIVE WalkContent(_, _, _, _, _, _)
WalkContent(fs, contentDir, publicDir, tmpl, order, i) ==
    IF i > Len(order) THEN [ok |-> TRUE, fs |-> fs]
    ELSE LET step == VisitContent(fs, contentDir, publicDir, tmpl, order[i])
         IN  IF ~step.ok THEN step
             ELSE WalkContent(step.fs, contentDir, publicDir, tmpl, order, i + 1)

\* the callback of copyStaticAssets on one path: [ok, fs]
VisitStatic(fs, src, dst, path) ==
    With(JoinAbs(dst, Rel(src, path)), LAMBDA destPath :
        IF IsDir(fs, path) THEN MkdirAll(fs, destPath)
        ELSE copyFile(fs, path, destPath))

RECURSIVE WalkStatic(_, _, _, _, _)
WalkStatic(fs, src, dst, order, i) ==
    IF i > Len(order) THEN [ok |-> TRUE, fs |-> fs]
    ELSE LET step == VisitStatic(fs, src, dst, order[i])
         IN  IF ~step.ok THEN step
             ELSE WalkStatic(step.fs, src, dst, order, i + 1)

\* copyStaticAssets: the walk reports a root that does not exist to the
\* callback, which returns that error
copyStaticAssets(fs, src, dst) ==
    IF ~Exists(fs, src) THEN [ok |-> FALSE, fs |-> fs]
    ELSE WalkStatic(fs, src, dst, WalkOrder(fs, src), 1)

\* a mutant: public is not removed before it is made
CleanKeeping(fs, publicDir) == MkdirAll(fs, publicDir)

\* step 1 of BuildProject: os.RemoveAll(publicDir), os.MkdirAll(publicDir)
Clean(fs, publicDir) == MkdirAll(RemoveAll(fs, publicDir).fs, publicDir)

\* step 3 of BuildProject: filepath.Walk(contentDir, ...)
ProcessContent(fs, contentDir, publicDir, tmpl) ==
    IF ~Exists(fs, contentDir) THEN [ok |-> FALSE, fs |-> fs]
    ELSE WalkContent(fs, contentDir, publicDir, tmpl, WalkOrder(fs, contentDir), 1)

\* Engine.BuildProject
BuildProject(cfg, fs, projectName) ==
    LET found == FindProjectByName(cfg, projectName)
        project == found.project
        contentDir == JoinAbs(project.Path, <<content>>)
        publicDir == JoinAbs(project.Path, <<public>>)
        themeDir == JoinAbs(project.Path, <<themes, default>>)
        templatePath == JoinAbs(themeDir, <<templates, pageHtml>>)
        cleaned == Clean(fs, publicDir)
        loaded == ParseFiles(cleaned.fs, templatePath)
        walked == ProcessContent(cleaned.fs, contentDir, publicDir, loaded.tmpl)
        copied == copyStaticAssets(walked.fs, JoinAbs(themeDir, <<static>>), publicDir)
    IN  IF ~found.ok THEN Result(ErrNotFound, <<>>, fs)
        ELSE IF ~cleaned.ok THEN Result(ErrClean, <<>>, cleaned.fs)
        ELSE IF ~loaded.ok THEN Result(ErrTemplate, <<>>, cleaned.fs)
        ELSE IF ~walked.ok THEN Result(ErrWalk, <<>>, walked.fs)
        ELSE IF ~copied.ok THEN Result(ErrStatic, <<>>, copied.fs)
        ELSE Result(NoErr, <<>>, copied.fs)

\* Engine.ListContentFiles: the files below content, relative, in walk order
ListContentFiles(cfg, fs, projectName) ==
    LET found == FindProjectByName(cfg, projectName)
        contentDir == JoinAbs(found.project.Path, <<content>>)
        order == SelectSeq(WalkOrder(fs, contentDir), LAMBDA p : IsFile(fs, p))
    IN  IF ~found.ok THEN Result(ErrNotFound, <<>>, fs)
        ELSE IF ~Exists(fs, contentDir) THEN Result(ErrWalk, <<>>, fs)
        ELSE Result(NoErr, [i \in 1..Len(order) |-> Rel(contentDir, order[i])], fs)

(***************************************************************************)
(* The registry.                                                           *)
(***************************************************************************)
ErrExists == "project already exists"

\* the directories AddProject creates below the project's path
ProjectDirs ==
    {<<content>>, <<public>>, <<themes, default, templates, partials>>,
     <<themes, default, static, css>>, <<themes, default, static, js>>, <<addons>>}

RECURSIVE MkdirEach(_, _)
MkdirEach(fs, ds) ==
    IF ds = {} THEN [ok |-> TRUE, fs |-> fs]
    ELSE LET d == CHOOSE x \in ds : TRUE
             made == MkdirAll(fs, d)
         IN  IF ~made.ok THEN made ELSE MkdirEach(made.fs, ds \ {d})

\* Engine.AddProject(name, ""): the project lives at <working directory>/name,
\* the working directory being the root of the disk; [err, cfg, fs]
AddProject(cfg, fs, name) ==
    LET projectPath == JoinAbs(<<>>, <<name>>)
        made == MkdirEach(fs, {projectPath \o d : d \in ProjectDirs})
    IN  IF \E i \in 1..Len(cfg) : cfg[i].Name = name
        THEN [err |-> ErrExists, cfg |-> cfg, fs |-> fs]
        ELSE IF ~made.ok THEN [err |-> ErrMkdir, cfg |-> cfg, fs |-> made.fs]
        ELSE [err |-> NoErr,
              cfg |-> Append(cfg, [Name |-> name, Path |-> projectPath]),
              fs |-> made.fs]

(***************************************************************************)
(* What the callers pass, and the disks the engine starts on.              *)
(***************************************************************************)
ProjectNames == {<<"p">>, <<"q">>}

Art(t, b) == [FrontMatter |-> [Title |-> t, Date |-> 1], Body |-> b, FilePath |-> <<>>]

\* articles as handleSaveArticleHandler builds them from the form
ArticleA == Art(<<"a">>, <<"x">>)
ArticleB == Art(<<"B">>, <<"-", "-", "-", " ">>)
ArticleBlank == Art(<<" ">>, <<"x">>)
ArticleEmpty == Art(<<>>, <<"x">>)
ArticleDashes == Art(<<"a", "-", "-", "-", "b">>, <<"x">>)
Articles == {ArticleA, ArticleB, ArticleBlank, ArticleEmpty, ArticleDashes}

aMd == <<"a", ".", "m", "d">>
aUpperMd == <<"a", ".", "M", "D">>
aTxt == <<"a", ".", "t", "x", "t">>
drafts == <<"d", "r", "a", "f", "t", "s">>
\* relative paths as the callers give them
RelPaths == {<<posts, aMd>>, <<DotDot, aMd>>}
\* the original paths handleSaveArticleHandler is given: none for a new
\* article, else any file the dashboard lists
SavePaths == RelPaths \cup {<<>>, <<posts, aTxt>>}

\* raw contents for WriteFileContent: markdown without front matter, and a
\* document whose front matter is no mapping
BareMarkdown == <<"x">>
BadFrontMatter == Delim \o <<"x">> \o Delim \o <<"y">>
\* a document whose front matter has a title and no date
TitleOnly == Delim \o <<NL, "title: ", "a", NL>> \o Delim \o <<NL, NL, "y">>
Contents == {BareMarkdown, BadFrontMatter, TitleOnly}

\* the theme of a project at the start: page.html (absent: <<>> is no file
\* here, see InitTree) and whether themes/default/static exists
GoodTemplate == <<TContent>>
Themes ==
    {[page |-> "good", static |-> TRUE],
     [page |-> "good", static |-> FALSE],
     [page |-> "none", static |-> TRUE],
     [page |-> "unclosed", static |-> TRUE],
     [page |-> "nofield", static |-> TRUE]}

PageText(kind) ==
    CASE kind = "good" -> GoodTemplate
      [] kind = "unclosed" -> <<TUnclosed>>
      [] kind = "nofield" -> <<TContent, TNoField>>

siteCss == <<"s", ".", "c", "s", "s">>
oldHtml == <<"o", "l", "d", ".", "h", "t", "m", "l">>

\* what the user put below content beside the articles: a document under an
\* upper-case extension, a text file, and a directory that holds nothing yet
OtherContent(fs, root) ==
    LET f1 == WriteFile(fs, root \o <<content, posts, aUpperMd>>, Document(ArticleB)).fs
        f2 == WriteFile(f1, root \o <<content, posts, aTxt>>, <<"t">>).fs
    IN  MkdirAll(f2, root \o <<content, drafts>>).fs

\* a project's tree at the start: the directories AddProject made, one saved
\* article and the other content, the theme, and in public the output of an
\* earlier build of an article that was renamed since
InitTree(fs, root, theme) ==
    LET d0 == MkdirEach(fs, {root \o d : d \in ProjectDirs}).fs
        d1 == OtherContent(WriteFile(MkdirAll(d0, root \o <<content, posts>>).fs,
                                     root \o <<content, posts, aMd>>,
                                     Document(ArticleA)).fs,
                           root)
        d2 == IF theme.page = "none" THEN d1
              ELSE WriteFile(d1, root \o <<themes, default, templates, pageHtml>>,
                             PageText(theme.page)).fs
        d3 == IF theme.static
              THEN WriteFile(d2, root \o <<themes, default, static, css, siteCss>>,
                             <<"c">>).fs
              ELSE RemoveAll(d2, root \o <<themes, default, static>>).fs
    IN  WriteFile(MkdirAll(d3, root \o <<public, posts>>).fs,
                  root \o <<public, posts, oldHtml>>, <<"o">>).fs

RECURSIVE InitDisk(_, _, _)
InitDisk(fs, cfg, theme) ==
    IF cfg = <<>> THEN fs
    ELSE InitDisk(InitTree(fs, Head(cfg).Path, theme), Tail(cfg), theme)

ProjectP == [Name |-> <<"p">>, Path |-> <<<<"p">>>>]
ProjectQ == [Name |-> <<"q">>, Path |-> <<<<"q">>>>]
EmptyDisk == [files |-> <<>>, dirs |-> {<<>>}]

(***************************************************************************)
(* The engine as a state machine: one action per call.                     *)
(***************************************************************************)
Disk == [files |-> files, dirs |-> dirs]

Init ==
    /\ config \in {<<ProjectP>>, <<ProjectP, ProjectQ>>}
    /\ \E theme \in Themes :
          LET fs == InitDisk(EmptyDisk, config, theme)
          IN  files = fs.files /\ dirs = fs.dirs
    /\ last = NoCall
    /\ nops = 0
    /\ title = <<>>
    /\ slug = <<>>
    /\ pc = "engine"
    /\ builds = <<>>
    /\ save = <<>>

Call(op, project, path, article, data, r) ==
    [op |-> op, project |-> project, path |-> path, article |-> article,
     data |-> data, err |-> r.err, ret |-> r.ret]

\* a call that returned r
Returns(call, r) ==
    /\ pc = "engine"
    /\ nops < MaxOps
    /\ nops' = nops + 1
    /\ last' = call
    /\ files' = r.fs.files
    /\ dirs' = r.fs.dirs
    /\ UNCHANGED <<title, slug, pc, builds, save>>

DoAddProject(name) ==
    LET r == AddProject(config, Disk, name)
    IN  /\ Returns(Call("AddProject", name, <<>>, <<>>, <<>>, [err |-> r.err, ret |-> <<>>]), r)
        /\ config' = r.cfg

DoReadFileContent(name, path) ==
    LET r == ReadFileContent(config, Disk, name, path)
    IN  /\ Returns(Call("ReadFileContent", name, path, <<>>, <<>>, r), r)
        /\ UNCHANGED config

DoWriteFileContent(name, path, data) ==
    LET r == WriteFileContent(config, Disk, name, path, data)
    IN  /\ Returns(Call("WriteFileContent", name, path, <<>>, data, r), r)
        /\ UNCHANGED config

DoParseArticleFile(name, path) ==
    LET r == ParseArticleFile(config, Disk, name, path)
    IN  /\ Returns(Call("ParseArticleFile", name, path, <<>>, <<>>, r), r)
        /\ UNCHANGED config

DoSaveArticle(name, article, path) ==
    LET r == SaveArticle(config, Disk, name, article, path)
    IN  /\ Returns(Call("SaveArticle", name, path, article, <<>>, r), r)
        /\ UNCHANGED config

DoBuildProject(name) ==
    LET r == BuildProject(config, Disk, name)
    IN  /\ Returns(Call("BuildProject", name, <<>>, <<>>, <<>>, r), r)
        /\ UNCHANGED config

DoListContentFiles(name) ==
    LET r == ListContentFiles(config, Disk, name)
    IN  /\ Returns(Call("ListContentFiles", name, <<>>, <<>>, <<>>, r), r)
        /\ UNCHANGED config

\* the paths showEditorHandler is asked for: a caller's, or the one the save
\* before redirected to
ParsePaths ==
    RelPaths \cup (IF last.op = "SaveArticle" /\ last.err = NoErr THEN {last.ret} ELSE {})

Next ==
    \/ \E name \in ProjectNames : DoAddProject(name)
    \/ \E name \in ProjectNames, path \in RelPaths : DoReadFileContent(name, path)
    \/ \E name \in ProjectNames, path \in RelPaths, data \in Contents :
          DoWriteFileContent(name, path, data)
    \/ \E name \in ProjectNames, path \in ParsePaths : DoParseArticleFile(name, path)
    \/ \E name \in ProjectNames, article \in Articles, path \in SavePaths :
          DoSaveArticle(name, article, path)
    \/ \E name \in ProjectNames : DoBuildProject(name)
    \/ \E name \in ProjectNames : DoListContentFiles(name)

Spec == Init /\ [][Next]_vars

(***************************************************************************)
(* BuildProject step by step.  The build route runs each request in its    *)
(* own goroutine and the engine holds no lock, so several calls of         *)
(* BuildProject can be in progress at once.  A call stands in a phase, the *)
(* part of the function body it executes; every system call that changes   *)
(* the disk and every callback of a walk is a step of its own.  Nothing    *)
(* here changes content or the theme, so what a walk finds does not depend *)
(* on when it lists a directory.                                           *)
(***************************************************************************)
BuildIds == 1..MaxBuilds

\* a mutant: the template is loaded before public is cleaned
NextPhaseTemplateFirst(phase) ==
    CASE phase = "Idle" -> "TemplateLoading"
      [] phase = "TemplateLoading" -> "Cleaning"
      [] phase = "Cleaning" -> "Walking"
      [] phase = "Walking" -> "CopyingAssets"
      [] phase = "CopyingAssets" -> "Done"

\* the part of BuildProject that follows a part that returned no error
NextPhase(phase) ==
    CASE phase = "Idle" -> "Cleaning"
      [] phase = "Cleaning" -> "TemplateLoading"
      [] phase = "TemplateLoading" -> "Walking"
      [] phase = "Walking" -> "CopyingAssets"
      [] phase = "CopyingAssets" -> "Done"

\* the first thing a part does
EntryAt(phase) ==
    CASE phase = "Cleaning" -> "RemoveAll"
      [] phase \in {"Walking", "CopyingAssets"} -> "Walk"
      [] OTHER -> ""

\* a call that was not made yet
IdleBuild ==
    [phase |-> "Idle", at |-> "", project |-> [Name |-> <<>>, Path |-> <<>>],
     tmpl |-> <<>>, order |-> <<>>, i |-> 0, raced |-> "no"]

\* a mutant: a call that met an error starts over
ProceedRetrying(build, ok) ==
    IF ok
    THEN [build EXCEPT !.phase = NextPhase(build.phase),
                       !.at = EntryAt(NextPhase(build.phase)),
                       !.order = <<>>, !.i = 0]
    ELSE [build EXCEPT !.phase = "Cleaning", !.at = "RemoveAll", !.order = <<>>, !.i = 0]

\* the call goes on with the next part, or returns the error
Proceed(build, ok) ==
    IF ok
    THEN [build EXCEPT !.phase = NextPhase(build.phase),
                       !.at = EntryAt(NextPhase(build.phase)),
                       !.order = <<>>, !.i = 0]
    ELSE [build EXCEPT !.phase = "Failed", !.at = "", !.order = <<>>, !.i = 0]

\* the step of call b leaves the disk as fs and the call as build
BuildStep(b, build, fs) ==
    /\ pc = "builds"
    /\ builds' = [builds EXCEPT ![b] = build]
    /\ files' = fs.files
    /\ dirs' = fs.dirs
    /\ UNCHANGED <<config, last, nops, title, slug, save>>
    /\ pc' = pc

\* the key paths of a call
ContentDirOf(build) == JoinAbs(build.project.Path, <<content>>)
PublicDirOf(build) == JoinAbs(build.project.Path, <<public>>)
TemplatePathOf(build) == JoinAbs(build.project.Path, <<themes, default, templates, pageHtml>>)
StaticDirOf(build) == JoinAbs(build.project.Path, <<themes, default, static>>)

\* BuildProject(name) is called: the project is looked up
StartBuild(b, name) ==
    /\ builds[b].phase = "Idle"
    /\ LET found == FindProjectByName(config, name)
       IN  BuildStep(b, Proceed([builds[b] EXCEPT !.project = found.project], found.ok),
                     Disk)

\* the call has removed its public directory already
HasCleaned(build) ==
    \/ build.phase \in {"TemplateLoading", "Walking", "CopyingAssets", "Done"}
    \/ build.phase = "Cleaning" /\ build.at = "MkdirAll"

\* os.RemoveAll(publicDir).  Every other call on the same project that has
\* cleaned already, and was not overrun since, notes the part it was in.
RemovePublic(b) ==
    /\ pc = "builds"
    /\ builds[b].phase = "Cleaning" /\ builds[b].at = "RemoveAll"
    /\ LET removed == RemoveAll(Disk, PublicDirOf(builds[b]))
       IN  /\ files' = removed.fs.files
           /\ dirs' = removed.fs.dirs
           /\ builds' =
                 [c \in BuildIds |->
                     IF c = b
                     THEN IF removed.ok
                          THEN [builds[b] EXCEPT !.at = "MkdirAll", !.raced = "no"]
                          ELSE Proceed(builds[b], FALSE)
                     ELSE IF /\ HasCleaned(builds[c])
                             /\ builds[c].project = builds[b].project
                             /\ builds[c].raced = "no"
                          THEN [builds[c] EXCEPT !.raced = builds[c].phase]
                          ELSE builds[c]]
    /\ UNCHANGED <<config, last, nops, title, slug, pc, save>>

\* os.MkdirAll(publicDir)
MakePublic(b) ==
    /\ builds[b].phase = "Cleaning" /\ builds[b].at = "MkdirAll"
    /\ LET made == MkdirAll(Disk, PublicDirOf(builds[b]))
       IN  BuildStep(b, Proceed(builds[b], made.ok), made.fs)

\* template.ParseFiles(templatePath)
LoadTemplate(b) ==
    /\ builds[b].phase = "TemplateLoading"
    /\ LET loaded == ParseFiles(Disk, TemplatePathOf(builds[b]))
       IN  BuildStep(b, Proceed([builds[b] EXCEPT !.tmpl = loaded.tmpl], loaded.ok), Disk)

\* a walk starts at root: a root that does not exist is an error the
\* callback returns
BeginWalk(b, root) ==
    /\ builds[b].at = "Walk"
    /\ BuildStep(b,
                 IF Exists(Disk, root)
                 THEN [builds[b] EXCEPT !.at = "Visit", !.order = WalkOrder(Disk, root),
                                        !.i = 1]
                 ELSE Proceed(builds[b], FALSE),
                 Disk)

\* the callback of a walk returned one of steps (there is one) for the path
\* it was given
Visited(b, steps) ==
    \E step \in steps :
        BuildStep(b,
                  IF ~step.ok THEN Proceed(builds[b], FALSE)
                  ELSE IF builds[b].i = Len(builds[b].order) THEN Proceed(builds[b], TRUE)
                  ELSE [builds[b] EXCEPT !.i = @ + 1],
                  step.fs)

\* filepath.Walk(contentDir, ...) starts
BeginContentWalk(b) ==
    builds[b].phase = "Walking" /\ BeginWalk(b, ContentDirOf(builds[b]))

\* the content walk visits its next path
VisitContentStep(b) ==
    /\ builds[b].phase = "Walking" /\ builds[b].at = "Visit"
    /\ Visited(b, {VisitContent(Disk, ContentDirOf(builds[b]), PublicDirOf(builds[b]),
                                builds[b].tmpl, builds[b].order[builds[b].i])})

\* copyStaticAssets: filepath.Walk(src, ...) starts
BeginStaticWalk(b) ==
    builds[b].phase = "CopyingAssets" /\ BeginWalk(b, StaticDirOf(builds[b]))

\* the walk of copyStaticAssets visits its next path
VisitStaticStep(b) ==
    /\ builds[b].phase = "CopyingAssets" /\ builds[b].at = "Visit"
    /\ Visited(b, {VisitStatic(Disk, StaticDirOf(builds[b]), PublicDirOf(builds[b]),
                               builds[b].order[builds[b].i])})

\* what a call that was made does next
RunBuild(b) ==
    \/ RemovePublic(b)
    \/ MakePublic(b)
    \/ LoadTemplate(b)
    \/ BeginContentWalk(b)
    \/ VisitContentStep(b)
    \/ BeginStaticWalk(b)
    \/ VisitStaticStep(b)

InitBuild ==
    /\ config = <<ProjectP>>
    /\ \E theme \in Themes :
          LET fs == InitDisk(EmptyDisk, config, theme)
          IN  files = fs.files /\ dirs = fs.dirs
    /\ builds = [b \in BuildIds |-> IdleBuild]
    /\ last = NoCall
    /\ nops = 0
    /\ title = <<>>
    /\ slug = <<>>
    /\ pc = "builds"
    /\ save = <<>>

NextBuild ==
    \/ \E b \in BuildIds, name \in ProjectNames : StartBuild(b, name)
    \/ \E b \in BuildIds : RunBuild(b)

SpecBuild == InitBuild /\ [][NextBuild]_vars

\* a goroutine that can run is run: every call that was made goes on
SpecBuildFair == SpecBuild /\ \A b \in BuildIds : WF_vars(RunBuild(b))

(***************************************************************************)
(* SaveArticle step by step: one call of the engine, a file call at a      *)
(* time, while other requests read files of the projects.  os.WriteFile    *)
(* opens the file (made, or cut to nothing) and then writes; a write that  *)
(* fails on its way leaves the file partly written.                        *)
(***************************************************************************)
bMd == <<"b", ".", "m", "d">>

\* the original paths the form gives: those of SavePaths, and one below a
\* regular file
SaveStepPaths == SavePaths \cup {<<posts, aTxt, aMd>>}

\* the paths the concurrent requests read
ReadPaths == {<<posts, aMd>>, <<posts, bMd>>}

\* a mutant: after a rename the old file is removed first, the new one
\* written afterwards
SaveNextDeleteFirst(phase, rename) ==
    CASE phase = "Idle" -> IF rename THEN "Removing" ELSE "Lookup"
      [] phase = "Removing" -> "Lookup"
      [] phase = "Lookup" -> "Making"
      [] phase = "Making" -> "Opening"
      [] phase = "Opening" -> "Filling"
      [] phase = "Filling" -> "Done"
      [] OTHER -> phase

\* what SaveArticle does after each of its parts: the slug and the path,
\* the project, the directories, the file opened, the file written, and
\* after a rename the old file removed
SaveNext(phase, rename) ==
    CASE phase = "Idle" -> "Lookup"
      [] phase = "Lookup" -> "Making"
      [] phase = "Making" -> "Opening"
      [] phase = "Opening" -> "Filling"
      [] phase = "Filling" -> IF rename THEN "Removing" ELSE "Done"
      [] phase = "Removing" -> "Done"
      [] OTHER -> phase

\* no call of SaveArticle was made; before is the disk the call found
IdleSave ==
    [phase |-> "Idle", project |-> <<>>, article |-> NoArticle, orig |-> <<>>,
     final |-> <<>>, full |-> <<>>, err |-> NoErr, ret |-> <<>>,
     before |-> EmptyDisk]

\* the call renames: originalFilePath != "" && originalFilePath != finalPath
Renames(s) == s.orig # <<>> /\ s.orig # s.final

\* the call goes on with its next part and returns finalPath after the last,
\* or returns the error and no path
SaveProceed(s, ok, err) ==
    IF ok
    THEN [s EXCEPT !.phase = SaveNext(s.phase, Renames(s)),
                   !.ret = IF SaveNext(s.phase, Renames(s)) = "Done"
                           THEN s.final ELSE <<>>]
    ELSE [s EXCEPT !.phase = "Failed", !.err = err, !.ret = <<>>]

\* the step leaves the disk as fs and the call as s
SaveStep(s, fs) ==
    /\ pc = "saves"
    /\ save' = s
    /\ files' = fs.files
    /\ dirs' = fs.dirs
    /\ UNCHANGED <<config, last, nops, title, slug, pc, builds>>

\* SaveArticle is called: the slug is checked and the final path chosen
StartSave(name, articleData, originalFilePath) ==
    LET newSlug == slugify(articleData.FrontMatter.Title)
        s == [IdleSave EXCEPT
                 !.project = name, !.orig = originalFilePath,
                 !.final = IF newSlug = <<>> THEN <<>>
                           ELSE FinalPath(newSlug, originalFilePath),
                 !.article = [articleData EXCEPT
                                 !.FilePath = IF newSlug = <<>> THEN <<>>
                                              ELSE FinalPath(newSlug, originalFilePath)],
                 !.before = Disk]
    IN  /\ save.phase = "Idle"
        /\ SaveStep(SaveProceed(s, newSlug # <<>>, ErrTitle), Disk)

\* WriteFileContent finds the project and joins the full path
LookupProject ==
    LET found == FindProjectByName(config, save.project)
    IN  /\ save.phase = "Lookup"
        /\ SaveStep(SaveProceed([save EXCEPT
                                    !.full = IF found.ok
                                             THEN ContentPath(found.project, save.final)
                                             ELSE <<>>],
                                found.ok, ErrNotFound),
                    Disk)

\* os.MkdirAll of the parent directory
MakeParent ==
    LET made == MkdirAll(Disk, Parent(save.full))
    IN  /\ save.phase = "Making"
        /\ SaveStep(SaveProceed(save, made.ok, ErrMkdir), made.fs)

\* os.WriteFile opens the file: it is made, or cut to nothing
OpenNew ==
    LET opened == WriteFile(Disk, save.full, <<>>)
    IN  /\ save.phase = "Opening"
        /\ SaveStep(SaveProceed(save, opened.ok, ErrWrite), opened.fs)

\* os.WriteFile writes the document and closes the file
FillNew ==
    /\ save.phase = "Filling"
    /\ SaveStep(SaveProceed(save, TRUE, NoErr),
                WriteFile(Disk, save.full, Document(save.article)).fs)

\* the write fails on its way (the disk is full): n characters are in the file
FillFails ==
    /\ save.phase = "Filling"
    /\ \E n \in {0, 1} :
          /\ n < Len(Document(save.article))
          /\ SaveStep(SaveProceed(save, FALSE, ErrWrite),
                      WriteFile(Disk, save.full,
                                SubSeq(Document(save.article), 1, n)).fs)

\* os.Remove of the old file, its error ignored
RemoveOld ==
    /\ save.phase = "Removing"
    /\ SaveStep(SaveProceed(save, TRUE, NoErr),
                Remove(Disk, OldFullPath(config, save.orig)).fs)

\* another request reads a file while the save is under way
ReadDuring(name, path) ==
    LET r == ReadFileContent(config, Disk, name, path)
    IN  /\ pc = "saves"
        /\ nops < MaxOps
        /\ nops' = nops + 1
        /\ last' = Call("ReadFileContent", name, path, <<>>, <<>>, r)
        /\ UNCHANGED <<config, files, dirs, title, slug, pc, builds, save>>

\* the disks a save finds: the start tree, and the start tree with a
\* directory where the article B would go
SaveDisks(cfg) ==
    LET fs == InitDisk(EmptyDisk, cfg, [page |-> "good", static |-> TRUE])
    IN  {fs, MkdirEach(fs, {cfg[i].Path \o <<content, posts, bMd>> :
                              i \in 1..Len(cfg)}).fs}

InitSave ==
    /\ config \in {<<ProjectP>>, <<ProjectP, ProjectQ>>}
    /\ \E fs \in SaveDisks(config) : files = fs.files /\ dirs = fs.dirs
    /\ save = IdleSave
    /\ builds = <<>>
    /\ last = NoCall
    /\ nops = 0
    /\ title = <<>>
    /\ slug = <<>>
    /\ pc = "saves"

NextSave ==
    \/ \E name \in ProjectNames, a \in Articles, p \in SaveStepPaths :
          StartSave(name, a, p)
    \/ LookupProject
    \/ MakeParent
    \/ OpenNew
    \/ FillNew
    \/ FillFails
    \/ RemoveOld
    \/ \E name \in ProjectNames, path \in ReadPaths : ReadDuring(name, path)

SpecSave == InitSave /\ [][NextSave]_vars

(***************************************************************************)
(* What the claims speak of.                                               *)
(***************************************************************************)
AllPaths(fs) == fs.dirs \cup DOMAIN fs.files

\* the paths a step created, removed or rewrote
Changed(a, b) ==
    {p \in AllPaths(a) \cup AllPaths(b) :
        \/ IsDir(a, p) # IsDir(b, p)
        \/ IsFile(a, p) # IsFile(b, p)
        \/ IsFile(a, p) /\ IsFile(b, p) /\ a.files[p] # b.files[p]}

Registered(name) == FindProjectByName(config, name).ok
RootOf(name) == FindProjectByName(config, name).project.Path
ContentRoot(name) == RootOf(name) \o <<content>>
PublicRoot(name) == RootOf(name) \o <<public>>
StaticRoot(name) == RootOf(name) \o <<themes, default, static>>
TemplateFile(name) == RootOf(name) \o <<themes, default, templates, pageHtml>>

Saved == last.op = "SaveArticle" /\ last.err = NoErr
SavedNext == last'.op = "SaveArticle" /\ last'.err = NoErr
NewSlugNext == slugify(last'.article.FrontMatter.Title)

\* the step is a successful save of an article that is stored, as a file of
\* the named project, at the original path given, under another slug
RenamingSave ==
    /\ SavedNext
    /\ last'.path # <<>>
    /\ IsFile(Disk, ContentPath([Path |-> RootOf(last'.project)], last'.path))
    /\ NewSlugNext # TrimSuffix(Base(last'.path), dotMd)

\* C1: a successful save of an existing article of any registered project
\* under a title with another slug returns <dir of original>/<newSlug>.md,
\* and the original file is gone from that project afterwards.
C1_RenameRemovesOld ==
    [][RenamingSave =>
          /\ last'.ret = JoinRel(Dir(last'.path), <<NewSlugNext \o dotMd>>)
          /\ ~IsFile(Disk', ContentPath([Path |-> RootOf(last'.project)], last'.path))]_vars

ProjectCalls == {"BuildProject", "SaveArticle", "WriteFileContent", "ParseArticleFile"}

\* C2: a build or article call naming project P changes nothing below the
\* root of any other registered project.
C2_OtherProjectsUntouched ==
    [][last'.op \in ProjectCalls =>
          \A i \in 1..Len(config) :
              config[i].Name # last'.project =>
                  \A p \in Changed(Disk, Disk') : ~IsPrefix(config[i].Path, p)]_vars

FileCalls == {"ReadFileContent", "WriteFileContent", "ParseArticleFile", "SaveArticle"}

\* C3: whatever relative path the caller gives, a file call on a registered
\* project reads, writes, creates and deletes only inside projectRoot/content.
C3_ConfinedToContent ==
    [][last'.op \in FileCalls /\ Registered(last'.project) =>
          /\ \A p \in Changed(Disk, Disk') : IsPrefix(ContentRoot(last'.project), p)
          /\ last'.op \in {"ReadFileContent", "ParseArticleFile"} /\ last'.err = NoErr =>
                 IsPrefix(ContentRoot(last'.project),
                          ContentPath([Path |-> RootOf(last'.project)], last'.path))]_vars

\* every markdown file below content has front matter the parser accepts
ContentParsable(fs, contentDir) ==
    \A p \in DOMAIN fs.files :
        IsPrefix(contentDir, p) /\ HasSuffix(p[Len(p)], dotMd) =>
            LET parts == SplitN(fs.files[p], Delim, 3)
            IN  Len(parts) = 3 /\ yamlValid(parts[2])

\* page.html parses and every action of it can be executed
TemplateSound(fs, templatePath) ==
    /\ ParseFiles(fs, templatePath).ok
    /\ \A i \in 1..Len(fs.files[templatePath]) : fs.files[templatePath][i] # TNoField

Built == last.op = "BuildProject" /\ Registered(last.project)

\* the build just made found a sound template, parsable content and no
\* themes/default/static (a build changes none of the three)
BuiltWithoutStatic ==
    /\ Built
    /\ TemplateSound(Disk, TemplateFile(last.project))
    /\ IsDir(Disk, ContentRoot(last.project))
    /\ ContentParsable(Disk, ContentRoot(last.project))
    /\ ~Exists(Disk, StaticRoot(last.project))

\* C4: a build without themes/default/static, the template valid and the
\* content parsable, skips the asset copy and returns success.
C4_MissingStaticSkipped == BuiltWithoutStatic => last.err = NoErr

\* where the build puts the output of the content file at a relative path
OutputOf(rel) ==
    IF HasSuffix(rel[Len(rel)], dotMd)
    THEN Append(Parent(rel), TrimSuffix(rel[Len(rel)], dotMd) \o dotHtml)
    ELSE rel

\* page.html applied to the body of the markdown file at path c
Rendered(fs, templatePath, c) ==
    Execute(fs.files[templatePath],
            [Content |-> ToHTML(SplitN(fs.files[c], Delim, 3)[3])]).out

FilesBelow(fs, root) == {p \in DOMAIN fs.files : IsPrefix(root, p)}
DirsBelow(fs, root) == {p \in fs.dirs : IsPrefix(root, p)}

\* public holds what the content and the theme of the project give, and
\* nothing else: every file is the copy of a static asset, the rendering of a
\* markdown file or the copy of another content file of the same place, every
\* directory leads to one of these or mirrors a static directory
PublicIsDerived(fs, name) ==
    LET cdir == ContentRoot(name)
        pdir == PublicRoot(name)
        sdir == StaticRoot(name)
        outs == {OutputOf(Rel(cdir, c)) : c \in FilesBelow(fs, cdir)}
        assets == {Rel(sdir, a) : a \in FilesBelow(fs, sdir)}
    IN  /\ {Rel(pdir, f) : f \in FilesBelow(fs, pdir)} = outs \cup assets
        /\ \A f \in FilesBelow(fs, pdir) :
               LET r == Rel(pdir, f)
                   mds == {c \in FilesBelow(fs, cdir) :
                              HasSuffix(c[Len(c)], dotMd) /\ OutputOf(Rel(cdir, c)) = r}
               IN  fs.files[f] =
                       IF r \in assets THEN fs.files[sdir \o r]
                       ELSE IF mds # {}
                            THEN Rendered(fs, TemplateFile(name), CHOOSE c \in mds : TRUE)
                            ELSE fs.files[cdir \o r]
        /\ \A d \in DirsBelow(fs, pdir) :
               \/ \E r \in outs \cup assets : IsPrefix(Rel(pdir, d), r)
               \/ IsDir(fs, sdir \o Rel(pdir, d))

\* C5: after a successful build public is a function of the content tree and
\* the theme alone; nothing an earlier build left is still there.
C5_FullRebuild == Built /\ last.err = NoErr => PublicIsDerived(Disk, last.project)

\* a first build that succeeded on a disk whose public held old.html
C5_Witness ==
    /\ Built /\ last.err = NoErr /\ nops = 1
    /\ ~Exists(Disk, PublicRoot(last.project) \o <<posts, oldHtml>>)
    /\ IsFile(Disk, PublicRoot(last.project) \o <<posts, <<"a">> \o dotHtml>>)

\* the step parses the file a save of a new article has just returned
ParsesTheSaved ==
    /\ Saved /\ last.path = <<>>
    /\ last'.op = "ParseArticleFile"
    /\ last'.project = last.project
    /\ last'.path = last.ret

\* C6: parsing the file a save of a new article returned succeeds and gives
\* back the article's title and date, and its body up to surrounding blanks.
C6_SaveParseRoundTrip ==
    [][ParsesTheSaved =>
          /\ last'.err = NoErr
          /\ last'.ret.FrontMatter = last.article.FrontMatter
          /\ last'.ret.Body = TrimSpace(last.article.Body)]_vars

\* C7: slugify applied to a slug gives that slug again.
C7_SlugifyIdempotent == pc = "reslugged" => slug = slugify(title)

C7_Witness ==
    /\ pc = "reslugged"
    /\ title = MyPost
    /\ slug = <<"m", "y", "-", "p", "o", "s", "t">>

\* the slug the algorithm of the specification gives, by positions: of the
\* lower-cased title keep every character of [a-z0-9-] and the first
\* character of every run of others, that one as "-"; then cut at the first
\* and the last character that is not "-"
SlugByPosition(t) ==
    LET low == ToLower(t)
        kept == {i \in 1..Len(low) :
                    low[i] \in SlugChars \/ i = 1 \/ low[i - 1] \in SlugChars}
        nth(k) == CHOOSE i \in kept : Cardinality({j \in kept : j <= i}) = k
        put == [k \in 1..Cardinality(kept) |->
                   IF low[nth(k)] \in SlugChars THEN low[nth(k)] ELSE "-"]
        solid == {k \in 1..Len(put) : put[k] # "-"}
    IN  IF solid = {} THEN <<>>
        ELSE SubSeq(put, CHOOSE k \in solid : \A m \in solid : k <= m,
                         CHOOSE k \in solid : \A m \in solid : k >= m)

\* C8: slugify is the stated algorithm; its result is made of [a-z0-9-], has
\* no "-" at either end, is "my-post" for "My Post!" and empty for blanks.
C8_SlugifyAlgorithm ==
    pc = "slugged" =>
        /\ slug = SlugByPosition(title)
        /\ \A i \in 1..Len(slug) : slug[i] \in SlugChars
        /\ slug # <<>> => slug[1] # "-" /\ slug[Len(slug)] # "-"
        /\ title = MyPost => slug = <<"m", "y", "-", "p", "o", "s", "t">>
        /\ title = Blank3 => slug = <<>>

\* a title with a run of two characters outside [a-z0-9-] between two inside
C8_Witness ==
    /\ pc = "slugged"
    /\ title = <<"a", " ", "!", "B">>
    /\ slug = <<"a", "-", "b">>

\* C9: a save whose title has an empty slug returns the validation error, for
\* a new article and an existing one, and changes no file.
C9_EmptySlugRejected ==
    [][last'.op = "SaveArticle" /\ slugify(last'.article.FrontMatter.Title) = <<>> =>
          /\ last'.err = ErrTitle
          /\ last'.ret = <<>>
          /\ Changed(Disk, Disk') = {}]_vars

\* a save of an existing article under a blank title was refused
C9_Witness ==
    /\ last.op = "SaveArticle"
    /\ last.err = ErrTitle
    /\ last.path = <<posts, aMd>>
    /\ last.article.FrontMatter.Title = <<" ">>
    /\ IsFile(Disk, ContentRoot(last.project) \o <<posts, aMd>>)

\* C10: a successful save of a new article returns posts/<slug>.md, and that
\* file of the named project then holds the serialized article.
C10_NewArticleAtPosts ==
    Saved /\ last.path = <<>> =>
        LET f == <<posts, slugify(last.article.FrontMatter.Title) \o dotMd>>
        IN  /\ last.ret = f
            /\ IsFile(Disk, ContentRoot(last.project) \o f)
            /\ files[ContentRoot(last.project) \o f] = Document(last.article)

\* a new article was saved in the second project of the registry
C10_Witness ==
    /\ Saved /\ last.path = <<>>
    /\ Len(config) = 2 /\ last.project = config[2].Name
    /\ last.ret = <<posts, <<"b">> \o dotMd>>

\* a file name without its extension, the suffix from the last "." on
StripExtension(name) ==
    LET dots == {i \in 1..Len(name) : name[i] = "."}
    IN  IF dots = {} THEN name
        ELSE SubSeq(name, 1, (CHOOSE i \in dots : \A k \in dots : i >= k) - 1)

\* C11: a successful save at an original path whose file name, whatever its
\* extension, has the slug of the title is in place and returns the original
\* path; under another slug it returns <dir of original>/<newSlug>.md.
C11_CreateVsRename ==
    Saved /\ last.path # <<>> =>
        last.ret = IF slugify(last.article.FrontMatter.Title)
                          = StripExtension(Base(last.path))
                   THEN last.path
                   ELSE JoinRel(Dir(last.path),
                                <<slugify(last.article.FrontMatter.Title) \o dotMd>>)

\* the text has fewer than two delimiters, so fewer than three segments
LacksFrontMatter(text) == Len(SplitN(text, Delim, 3)) < 3

\* the markdown files below the content of a project that lack front matter
BareFiles(name) ==
    {c \in FilesBelow(Disk, ContentRoot(name)) :
        HasSuffix(c[Len(c)], dotMd) /\ LacksFrontMatter(files[c])}

\* the file the call just made named, as a file of the named project
NamedFile == ContentPath([Path |-> RootOf(last.project)], last.path)

C12_ParseSeen ==
    /\ last.op = "ParseArticleFile" /\ last.err = ErrFormat
    /\ IsFile(Disk, NamedFile) /\ files[NamedFile] = BareMarkdown

C14_DirectoriesMirrored ==
    Built /\ last.err = NoErr =>
        \A d \in DirsBelow(Disk, ContentRoot(last.project)) :
            IsDir(Disk, PublicRoot(last.project) \o Rel(ContentRoot(last.project), d))

\* the markdown files of a project the build cannot process: no front
\* matter, front matter that is no mapping, or a template that cannot be
\* executed
FailingFiles(name) ==
    {c \in FilesBelow(Disk, ContentRoot(name)) :
        /\ HasSuffix(c[Len(c)], dotMd)
        /\ \/ LacksFrontMatter(files[c])
           \/ ~yamlValid(SplitN(files[c], Delim, 3)[2])
           \/ ~TemplateSound(Disk, TemplateFile(name))}

\* the build just made got as far as the content walk, and some file of the
\* walk cannot be processed
WalkFailed ==
    /\ Built
    /\ ParseFiles(Disk, TemplateFile(last.project)).ok
    /\ FailingFiles(last.project) # {}

FirstFailing ==
    CHOOSE c \in FailingFiles(last.project) :
        \A d \in FailingFiles(last.project) \ {c} : PathLess(c, d)

\* C15: when a content file cannot be processed the build returns an error,
\* the files before it in walk order have their outputs, no file after it
\* has one, and no static asset is in public.
C15_FirstErrorStops ==
    WalkFailed =>
        /\ last.err = ErrWalk
        /\ \A c \in FilesBelow(Disk, ContentRoot(last.project)) \ {FirstFailing} :
               LET out == PublicRoot(last.project)
                              \o OutputOf(Rel(ContentRoot(last.project), c))
               IN  IF PathLess(c, FirstFailing)
                   THEN /\ IsFile(Disk, out)
                        /\ files[out] =
                               IF HasSuffix(c[Len(c)], dotMd)
                               THEN Rendered(Disk, TemplateFile(last.project), c)
                               ELSE files[c]
                   ELSE ~Exists(Disk, out)
        /\ \A a \in FilesBelow(Disk, StaticRoot(last.project)) :
               ~Exists(Disk, PublicRoot(last.project) \o Rel(StaticRoot(last.project), a))

\* a build stopped at posts/a.md: posts/a.MD before it was copied, posts/a.txt
\* after it and the style sheet of the theme were not
C15_Witness ==
    /\ WalkFailed /\ last.err = ErrWalk
    /\ FirstFailing = ContentRoot(last.project) \o <<posts, aMd>>
    /\ IsFile(Disk, PublicRoot(last.project) \o <<posts, aUpperMd>>)
    /\ IsFile(Disk, ContentRoot(last.project) \o <<posts, aTxt>>)
    /\ ~Exists(Disk, PublicRoot(last.project) \o <<posts, aTxt>>)
    /\ IsFile(Disk, StaticRoot(last.project) \o <<css, siteCss>>)
    /\ ~Exists(Disk, PublicRoot(last.project) \o <<css, siteCss>>)

\* page.html of the project is missing, or holds an action that is not closed
TemplateBroken(name) ==
    \/ ~IsFile(Disk, TemplateFile(name))
    \/ \E i \in 1..Len(files[TemplateFile(name)]) : files[TemplateFile(name)][i] = TUnclosed

\* C16: a build of a project whose page.html is missing or does not parse
\* returns the template error, and public (cleaned before the template is
\* loaded) holds no file afterwards: no rendering, no copy, no asset.
C16_TemplateFailureFatal ==
    Built /\ TemplateBroken(last.project) =>
        /\ last.err = ErrTemplate
        /\ FilesBelow(Disk, PublicRoot(last.project)) = {}

\* a build failed for a missing page.html, with content and assets to build
C16_Witness ==
    /\ Built /\ last.err = ErrTemplate
    /\ ~IsFile(Disk, TemplateFile(last.project))
    /\ IsFile(Disk, ContentRoot(last.project) \o <<posts, aMd>>)
    /\ IsFile(Disk, StaticRoot(last.project) \o <<css, siteCss>>)
    /\ ~Exists(Disk, PublicRoot(last.project) \o <<css, siteCss>>)

\* a build failed for a page.html that does not parse
C16_UnclosedSeen ==
    /\ Built /\ last.err = ErrTemplate
    /\ IsFile(Disk, TemplateFile(last.project))

\* the phases of the specification's state machine, in its order
PhaseOrder == <<"Idle", "Cleaning", "TemplateLoading", "Walking", "CopyingAssets", "Done">>
PhaseRank(phase) ==
    IF phase = "Failed" THEN Len(PhaseOrder) + 1
    ELSE CHOOSE k \in 1..Len(PhaseOrder) : PhaseOrder[k] = phase

\* the moves of the state machine: to the next phase of the order, or from
\* any phase but Done to Failed
PhaseMoves ==
    {<<PhaseOrder[k], PhaseOrder[k + 1]>> : k \in 1..(Len(PhaseOrder) - 1)}
        \cup {<<PhaseOrder[k], "Failed">> : k \in 1..(Len(PhaseOrder) - 1)}

HasKey(text, key) ==
    \E i \in 1..Len(Lines(SplitN(text, Delim, 3)[2])) :
        Head(Lines(SplitN(text, Delim, 3)[2])[i]) = key

\* the text is a document with well-formed front matter in which the title
\* or the date is absent
LacksRequiredField(text) ==
    /\ ~LacksFrontMatter(text)
    /\ yamlValid(SplitN(text, Delim, 3)[2])
    /\ ~HasKey(text, "title: ") \/ ~HasKey(text, "date: ")

\* C18: parsing an existing file whose well-formed front matter lacks the
\* title or the date returns an error, not an article; parsing a file that
\* does not exist returns an error.
C18_SchemaValidated ==
    last.op = "ParseArticleFile" /\ Registered(last.project) =>
        /\ IsFile(Disk, NamedFile) /\ LacksRequiredField(files[NamedFile])
               => last.err # NoErr /\ last.ret = NoArticle
        /\ ~IsFile(Disk, NamedFile) => last.err = ErrRead /\ last.ret = NoArticle

\* public holds an output for every content file of the build's project
OutputsPresent(build) ==
    \A c \in FilesBelow(Disk, ContentDirOf(build)) :
        IsFile(Disk, PublicDirOf(build) \o OutputOf(Rel(ContentDirOf(build), c)))

\* C19: builds of one project exclude each other in nothing: a build that
\* returned success leaves public without the output of some content file
\* only when another build removed public after this build cleaned it, and
\* such an interleaving is reachable (the witness).
C19_BuildsRace ==
    pc = "builds" =>
        \A b \in BuildIds :
            builds[b].phase = "Done" /\ builds[b].raced = "no" =>
                OutputsPresent(builds[b])

\* a build returned success although another build removed public while
\* this one was walking content or copying assets, and outputs are missing
C19_Witness ==
    /\ pc = "builds"
    /\ \E b \in BuildIds :
          /\ builds[b].phase = "Done"
          /\ builds[b].raced \in {"Walking", "CopyingAssets"}
          /\ ~OutputsPresent(builds[b])

\* a build of a project with a good theme failed: the other build removed
\* the directory an asset was to be copied into
C19_FailureSeen ==
    /\ pc = "builds"
    /\ \E b \in BuildIds :
          /\ builds[b].phase = "Failed"
          /\ builds[b].raced = "CopyingAssets"
          /\ IsFile(Disk, StaticDirOf(builds[b]) \o <<css, siteCss>>)

\* C20: every build that was started reaches Done or Failed, and on its way
\* no build comes back to a phase it has left.
C20_BuildTerminates ==
    /\ \A b \in BuildIds :
           (builds[b].phase # "Idle") ~> (builds[b].phase \in {"Done", "Failed"})
    /\ [][\A b \in BuildIds :
              builds'[b].phase # builds[b].phase =>
                  PhaseRank(builds'[b].phase) > PhaseRank(builds[b].phase)]_vars

\* two builds of the same project, run at once, have both returned success
C20_Witness ==
    /\ pc = "builds"
    /\ \A b \in BuildIds :
          builds[b].phase = "Done" /\ builds[b].project = ProjectP

\* the calls that name a project and look it up
LookupCalls ==
    {"BuildProject", "ReadFileContent", "WriteFileContent", "ParseArticleFile",
     "ListContentFiles", "SaveArticle"}

\* no project of the registry has the name
Unknown(name) == ~\E i \in 1..Len(config) : config[i].Name = name

\* the step is a call of the engine that names a project the registry does
\* not hold; a save has a title with a slug
UnknownProjectCall ==
    /\ last'.op \in LookupCalls
    /\ Unknown(last'.project)
    /\ last'.op = "SaveArticle" => slugify(last'.article.FrontMatter.Title) # <<>>

\* C21: a build, read, write, parse, listing or save (of a valid title, new
\* or existing) that names a project not in the registry returns the
\* not-found error and changes neither the disk nor the registry.
C21_UnknownProject ==
    [][UnknownProjectCall =>
          /\ last'.err = ErrNotFound
          /\ Changed(Disk, Disk') = {}
          /\ config' = config]_vars

\* a save of an existing article under a new title named a project the
\* registry does not hold, and the file of the same path in the registered
\* project is as it was
C21_Witness ==
    /\ last.op = "SaveArticle" /\ last.err = ErrNotFound
    /\ Unknown(last.project)
    /\ last.path = <<posts, aMd>>
    /\ last.article = ArticleB
    /\ IsFile(Disk, <<<<"p">>, content, posts, aMd>>)
    /\ files[<<<<"p">>, content, posts, aMd>>] = Document(ArticleA)

\* the project the save under way names is in the registry, and its root
SaveRoot == FindProjectByName(config, save.project).project.Path
\* the old and the new file of the save under way, in its project
SaveOld == JoinAbs(SaveRoot \o <<content>>, save.orig)
SaveNew == JoinAbs(SaveRoot \o <<content>>, save.final)

\* a renaming save of a file that was there is under way or has returned
RenameUnderWay ==
    /\ pc = "saves"
    /\ save.phase # "Idle"
    /\ ~Unknown(save.project)
    /\ save.final # <<>>
    /\ Renames(save)
    /\ IsFile(save.before, SaveOld)

\* C22: from the call of a renaming SaveArticle on, whatever the other
\* requests read meanwhile, the article is a file at the old path or at the
\* new one in every state, and when the old file is about to be removed (and
\* after the call returned its path) the new file holds the whole document.
C22_WriteBeforeDelete ==
    RenameUnderWay =>
        /\ IsFile(Disk, SaveOld) \/ IsFile(Disk, SaveNew)
        /\ save.phase \in {"Removing", "Done"} =>
              /\ IsFile(Disk, SaveNew)
              /\ files[SaveNew] = Document(save.article)

\* a save renamed posts/a.md of project p: the old file is gone, the new one
\* is there, and a request that read the old path meanwhile found no file
C22_Witness ==
    /\ RenameUnderWay
    /\ save.phase = "Done"
    /\ save.project = <<"p">> /\ save.orig = <<posts, aMd>>
    /\ ~IsFile(Disk, SaveOld) /\ IsFile(Disk, SaveNew)
    /\ last.op = "ReadFileContent" /\ last.project = <<"p">>
    /\ last.path = save.orig /\ last.err = ErrRead

\* the step-by-step save ends as the call of the engine does
SaveStepsAgree ==
    (pc = "saves" /\ save.phase \in {"Done", "Failed"}
        /\ ~(save.err = ErrWrite /\ IsFile(Disk, save.full))) =>
        LET r == SaveArticle(config, save.before, save.project,
                             [save.article EXCEPT !.FilePath = <<>>], save.orig)
        IN  r.err = save.err /\ r.ret = save.ret /\ r.fs = Disk

\* the write of the save under way failed: WriteArticleFile returned an error
WriteFailed ==
    /\ pc = "saves"
    /\ save.err \in {ErrNotFound, ErrMkdir, ErrWrite}

\* the file at the original path of the save under way, in project i of the
\* registry, is as the call found it
OldKept(i) ==
    LET old == JoinAbs(config[i].Path \o <<content>>, save.orig)
    IN  IsFile(save.before, old) =>
            /\ IsFile(Disk, old)
            /\ files[old] = save.before.files[old]

\* C23: when the write of a SaveArticle fails (project not found, the
\* directory not made, the file not written), the call returns that error
\* and no path, and the file at the original path is there with the content
\* it had.
C23_FailedWriteKeepsOriginal ==
    WriteFailed =>
        /\ save.phase = "Failed"
        /\ save.ret = <<>>
        /\ save.orig # <<>> => \A i \in 1..Len(config) : OldKept(i)

\* the same for the saves whose final path is not the original one
FailedRenameKeepsOriginal ==
    (WriteFailed /\ save.orig # save.final) =>
        /\ save.phase = "Failed"
        /\ save.ret = <<>>
        /\ save.orig # <<>> => \A i \in 1..Len(config) : OldKept(i)

====
